---- MODULE Spec2Model ----
(***************************************************************************)
(* build.rs of keybox-parser: keybox.xml is scanned for the certificates   *)
(* and the private key of the Key elements with algorithm="ecdsa", and     *)
(* src/ec_constants.rs is generated from them.                             *)
(*                                                                         *)
(* Texts, file contents and the generated source are TLA+ strings, taken   *)
(* apart character by character with Len, SubSeq and \o.                   *)
(***************************************************************************)
EXTENDS Integers, Sequences, FiniteSets, TLC

(***************************************************************************)
(* Bounds of the model.                                                    *)
(***************************************************************************)
\* events of one document in the unrestricted environment (Spec)
MaxEvents == 6
\* open elements at one time in the unrestricted environment (Spec)
MaxDepth == 3
\* elements of one document of the keybox format (SpecFlat)
MaxElems == 3
\* Certificate elements of one document (SpecChain)
MaxChain == 5
\* certificate entries handed to write_rust_constants directly (SpecEmit)
MaxCerts == 4

(***************************************************************************)
(* Strings.                                                                *)
(***************************************************************************)
CharAt(s, i) == SubSeq(s, i, i)

\* str::starts_with
starts_with(s, prefix) ==
    /\ Len(s) >= Len(prefix)
    /\ SubSeq(s, 1, Len(prefix)) = prefix

\* the position of the first "\n" of s at or after i, Len(s) + 1 if none
RECURSIVE FindNewline(_, _)
FindNewline(s, i) ==
    IF i > Len(s) THEN Len(s) + 1
    ELSE IF CharAt(s, i) = "\n" THEN i
    ELSE FindNewline(s, i + 1)

\* a line without the "\r" of its "\r\n" ending
StripCr(line) ==
    IF Len(line) > 0 /\ CharAt(line, Len(line)) = "\r"
    THEN SubSeq(line, 1, Len(line) - 1)
    ELSE line

\* str::lines: the text split at "\n" (or "\r\n"); a final line ending adds
\* no empty last line, and the empty text has no line
RECURSIVE lines(_)
lines(s) ==
    IF Len(s) = 0 THEN << >>
    ELSE LET nl == FindNewline(s, 1)
         IN  IF nl > Len(s) THEN << s >>
             ELSE << StripCr(SubSeq(s, 1, nl - 1)) >>
                      \o lines(SubSeq(s, nl + 1, Len(s)))

\* [&str]::join("")
RECURSIVE join(_)
join(ls) == IF ls = << >> THEN "" ELSE Head(ls) \o join(Tail(ls))

IsDelimiterLine(line) ==
    starts_with(line, "-----BEGIN") \/ starts_with(line, "-----END")

\* every line that starts with five dashes dropped
clean_pem_data_dashes(pem) ==
    join(SelectSeq(lines(pem), LAMBDA line : ~starts_with(line, "-----")))

clean_pem_data(pem) ==
    join(SelectSeq(lines(pem), LAMBDA line : ~IsDelimiterLine(line)))

\* str::trim: the ASCII white space of both ends removed
IsWhite(c) == c \in {" ", "\t", "\n", "\r"}

RECURSIVE TrimStart(_)
TrimStart(s) ==
    IF Len(s) > 0 /\ IsWhite(CharAt(s, 1))
    THEN TrimStart(SubSeq(s, 2, Len(s)))
    ELSE s

RECURSIVE TrimEnd(_)
TrimEnd(s) ==
    IF Len(s) > 0 /\ IsWhite(CharAt(s, Len(s)))
    THEN TrimEnd(SubSeq(s, 1, Len(s) - 1))
    ELSE s

trim(s) == TrimEnd(TrimStart(s))

(***************************************************************************)
(* base64::decode, the standard alphabet with "=" padding.  A result is    *)
(* [ok |-> TRUE, bytes |-> <<...>>] or [ok |-> FALSE, bytes |-> << >>].    *)
(***************************************************************************)
Alphabet == "ABCDEFGHIJKLMNOPQRSTUVWXYZabcdefghijklmnopqrstuvwxyz0123456789+/"

IsSymbol(c) == \E i \in 1..Len(Alphabet) : CharAt(Alphabet, i) = c

\* the six bits of a symbol of the alphabet
Sextet(c) == (CHOOSE i \in 1..Len(Alphabet) : CharAt(Alphabet, i) = c) - 1

DecodeErr == [ok |-> FALSE, bytes |-> << >>]

\* the last group of four: "xx==" is one byte, "xxx=" two, "xxxx" three;
\* the bits left over by padding must be zero
DecodeLast(q) ==
    LET c1 == CharAt(q, 1)
        c2 == CharAt(q, 2)
        c3 == CharAt(q, 3)
        c4 == CharAt(q, 4)
    IN  IF ~(IsSymbol(c1) /\ IsSymbol(c2)) THEN DecodeErr
        ELSE LET b1 == Sextet(c1) * 4 + (Sextet(c2) \div 16)
             IN  IF c3 = "=" /\ c4 = "="
                 THEN IF Sextet(c2) % 16 = 0
                      THEN [ok |-> TRUE, bytes |-> << b1 >>]
                      ELSE DecodeErr
                 ELSE IF ~IsSymbol(c3) THEN DecodeErr
                 ELSE LET b2 == (Sextet(c2) % 16) * 16 + (Sextet(c3) \div 4)
                      IN  IF c4 = "="
                          THEN IF Sextet(c3) % 4 = 0
                               THEN [ok |-> TRUE, bytes |-> << b1, b2 >>]
                               ELSE DecodeErr
                          ELSE IF ~IsSymbol(c4) THEN DecodeErr
                          ELSE [ok |-> TRUE,
                                bytes |-> << b1, b2,
                                             (Sextet(c3) % 4) * 64 + Sextet(c4) >>]

RECURSIVE DecodeGroups(_)
DecodeGroups(s) ==
    IF Len(s) = 0 THEN [ok |-> TRUE, bytes |-> << >>]
    ELSE IF Len(s) = 4 THEN DecodeLast(s)
    ELSE LET q == SubSeq(s, 1, 4)
             rest == DecodeGroups(SubSeq(s, 5, Len(s)))
         IN  IF \E i \in 1..4 : ~IsSymbol(CharAt(q, i)) THEN DecodeErr
             ELSE IF ~rest.ok THEN DecodeErr
             ELSE [ok |-> TRUE, bytes |-> DecodeLast(q).bytes \o rest.bytes]

decode(s) == IF Len(s) % 4 # 0 THEN DecodeErr ELSE DecodeGroups(s)

(***************************************************************************)
(* The generated source, as write_rust_constants formats it.               *)
(***************************************************************************)
HexDigits == "0123456789abcdef"

\* {:x}: no leading zero
HexShort(byte) ==
    IF byte < 16
    THEN CharAt(HexDigits, byte + 1)
    ELSE CharAt(HexDigits, (byte \div 16) + 1) \o CharAt(HexDigits, (byte % 16) + 1)

\* {:02x}
Hex2(byte) ==
    CharAt(HexDigits, (byte \div 16) + 1) \o CharAt(HexDigits, (byte % 16) + 1)

\* the nested fn write_bytes, from the byte of index i (counted from 0) on
RECURSIVE write_bytes_from(_, _)
write_bytes_from(bytes, i) ==
    IF i >= Len(bytes) THEN "\n"
    ELSE (IF i % 10 = 0
          THEN (IF i # 0 THEN "\n" ELSE "") \o "    "
          ELSE "")
         \o "0x" \o Hex2(bytes[i + 1]) \o ", "
         \o write_bytes_from(bytes, i + 1)

\* the rows never broken: i % 10 == 0 taken for i == 0
RECURSIVE write_bytes_unbroken_from(_, _)
write_bytes_unbroken_from(bytes, i) ==
    IF i >= Len(bytes) THEN "\n"
    ELSE (IF i = 0 THEN "    " ELSE "")
         \o "0x" \o Hex2(bytes[i + 1]) \o ", "
         \o write_bytes_unbroken_from(bytes, i + 1)

write_bytes_unbroken(bytes) == write_bytes_unbroken_from(bytes, 0)

write_bytes(bytes) == write_bytes_from(bytes, 0)

GeneratedHeader == "// Auto-generated constants\n" \o "\n"

Digit(i) == CharAt("0123456789", i + 1)

None == [some |-> FALSE, value |-> ""]
Some(v) == [some |-> TRUE, value |-> v]

\* Vec::get(i - 1)
get(certs, i) == IF i <= Len(certs) THEN Some(certs[i]) ELSE None

\* no declaration for a certificate that does not decode
write_certificate_or_nothing(certs, i) ==
    LET cert == get(certs, i)
    IN  IF cert.some
        THEN LET decoded_cert == decode(trim(cert.value))
             IN  IF decoded_cert.ok
                 THEN "pub const EC_CERTIFICATE_" \o Digit(i) \o ": &[u8] = &[" \o "\n"
                      \o write_bytes(decoded_cert.bytes)
                      \o "];\n" \o "\n"
                 ELSE ""
        ELSE "pub const EC_CERTIFICATE_" \o Digit(i) \o ": &[u8] = &[];\n" \o "\n"

\* one turn of the loop over the three certificate constants
write_certificate(certs, i) ==
    LET cert == get(certs, i)
    IN  IF cert.some
        THEN LET decoded_cert == decode(trim(cert.value))
             IN  IF decoded_cert.ok
                 THEN "pub const EC_CERTIFICATE_" \o Digit(i) \o ": &[u8] = &[" \o "\n"
                      \o write_bytes(decoded_cert.bytes)
                      \o "];\n" \o "\n"
                 ELSE "pub const EC_CERTIFICATE_" \o Digit(i) \o ": &[u8] = &[];\n" \o "\n"
        ELSE "pub const EC_CERTIFICATE_" \o Digit(i) \o ": &[u8] = &[];\n" \o "\n"

\* the private key constant: nothing is written for a key that does not decode
write_private_key(private_key) ==
    IF private_key.some
    THEN LET decoded_key == decode(trim(private_key.value))
         IN  IF decoded_key.ok
             THEN "pub const EC_PRIVATE_KEY: &[u8] = &[" \o "\n"
                  \o write_bytes(decoded_key.bytes)
                  \o "];\n" \o "\n"
             ELSE ""
    ELSE "pub const EC_PRIVATE_KEY: &[u8] = &[];\n" \o "\n"

\* everything write_rust_constants writes to output_file, in order
Output(certs, private_key) ==
    GeneratedHeader
    \o write_certificate(certs, 1)
    \o write_certificate(certs, 2)
    \o write_certificate(certs, 3)
    \o write_private_key(private_key)

\* the file opened for appending
WriteAtEnd(old, data) == old \o data

\* OpenOptions::new().write(true).create(true): the file is written from its
\* start and keeps the bytes it held beyond the ones written
WriteFromStart(old, data) ==
    data \o SubSeq(old, Len(data) + 1, Len(old))

(***************************************************************************)
(* The state: the two files, the run of main, the parser and the scanner.  *)
(***************************************************************************)
VARIABLES
    keybox_path,        \* the environment's KEYBOX_PATH: "set", "unset" or
                        \* "not_utf8" (set, and keybox.xml's path is not UTF-8)
    artifact,           \* src/ec_constants.rs: [exists, content]
    manifest_present,   \* whether keybox.xml can be opened
    manifest,           \* the events keybox.xml has yielded so far, in order
                        \* (kept where the document's format or a second
                        \* run needs them)
    pc,                 \* where main is: "main", "open", "scan", "emit", "exit"
    result,             \* what main returned: "none" while it runs
    run,                \* the number of this run of the build: 1 or 2
    before,             \* the artifact as it was when this run started
    written,            \* the bytes this run's write_rust_constants has written
    emitter_called,     \* whether this run has called write_rust_constants
    io_failed,          \* whether a write to the artifact has failed
    pos,                \* the number of events the parser has yielded
    stack,              \* the elements open at the parser's position
    event,              \* the event the scanner's loop holds
    is_ecdsa,
    inside_certificate,
    inside_private_key,
    certs,
    private_key,
    pem,                \* the text a call of clean_pem_data on its own is given
    cleaned,            \* what that call returned, and what the call on its
                        \* result returned
    bytes,              \* the bytes a call of write_bytes on its own is given
    emitted             \* what that call wrote: [done, text]

vars == << keybox_path, artifact, manifest_present, manifest, pc, result, run,
           before, written, emitter_called, io_failed, pos, stack, event,
           is_ecdsa, inside_certificate, inside_private_key, certs,
           private_key, pem, cleaned, bytes, emitted >>

\* the calls of the two functions on their own
calls == << pem, cleaned, bytes, emitted >>

files == << keybox_path, artifact, manifest_present >>
scanner == << is_ecdsa, inside_certificate, inside_private_key, certs,
              private_key >>
parser == << manifest, pos, stack, event >>

(***************************************************************************)
(* The texts of the model's documents.                                     *)
(***************************************************************************)
PemText == "-----BEGIN CERTIFICATE-----\nAAEC\nAwQF\n-----END CERTIFICATE-----\n"
SpacedText == "\n  AwQF\n"
BadText == "A!"

Texts == {"AAEC", SpacedText, BadText}
FlatTexts == {"AAEC", "AwQF"}
CleanTexts == {clean_pem_data(t) : t \in Texts}

NoArtifact == [exists |-> FALSE, content |-> ""]
File(content) == [exists |-> TRUE, content |-> content]

\* what an earlier build has left: nothing, the constants of an empty
\* manifest, or three certificates and a key
PriorArtifacts ==
    { NoArtifact,
      File(Output(<< >>, None)),
      File(Output(<< clean_pem_data(PemText), clean_pem_data(PemText),
                     clean_pem_data(PemText) >>,
                  Some(clean_pem_data(PemText)))) }

(***************************************************************************)
(* The events of xml::reader::EventReader.                                 *)
(***************************************************************************)
Event(kind, name, attributes, text) ==
    [kind |-> kind, name |-> name, attributes |-> attributes, text |-> text]

StartElementOf(name, attributes) == Event("StartElement", name, attributes, "")
EndElementOf(name) == Event("EndElement", name, << >>, "")
CharactersOf(text) == Event("Characters", "", << >>, text)
\* StartDocument, Whitespace, Comment, ...: the events of the arm _ => {}
OtherEvent == Event("Other", "", << >>, "")
\* the Err the iterator yields for a document that is not well-formed
ErrorEvent == Event("Error", "", << >>, "")
\* the end of the iteration
EndDocument == Event("EndDocument", "", << >>, "")
\* no event yet
NoEvent == Event("None", "", << >>, "")

Attr(name, value) == [name |-> name, value |-> value]

KeyAttributes ==
    { << >>,
      << Attr("algorithm", "ecdsa") >>,
      << Attr("algorithm", "rsa") >> }

ElementNames == {"Key", "Certificate", "PrivateKey", "CertificateChain"}

StartEvents ==
    {StartElementOf("Key", a) : a \in KeyAttributes}
    \cup {StartElementOf(n, << >>) : n \in ElementNames \ {"Key"}}

Top == stack[Len(stack)]

LastEvent == manifest[Len(manifest)]

\* how many of the events read so far open an element named in names
CountStarts(names) ==
    Cardinality({i \in 1..Len(manifest) :
                    /\ manifest[i].kind = "StartElement"
                    /\ manifest[i].name \in names})

IsKeyStart(e) == e.kind = "StartElement" /\ e.name = "Key"

\* how the iteration can end: an error anywhere, the end of the document
\* once every element is closed
Endings == {ErrorEvent} \cup (IF stack = << >> THEN {EndDocument} ELSE { })

(***************************************************************************)
(* Three environments: what the document may hold next, given what the     *)
(* parser has read of it.  The elements at depth 0 are the children of the *)
(* document element, which the scanner does not tell from any other        *)
(* element.                                                                *)
(***************************************************************************)
\* any stream of properly nested elements, with text anywhere
AnyDocument ==
    Endings
    \cup (IF stack # << >> THEN {EndElementOf(Top.name)} ELSE { })
    \cup (IF pos < MaxEvents
          THEN {OtherEvent}
               \cup {CharactersOf(t) : t \in Texts}
               \cup (IF Len(stack) < MaxDepth THEN StartEvents ELSE { })
          ELSE { })

\* the keybox format: Key elements, each holding Certificate and PrivateKey
\* elements, each of those holding at most one block of text
FlatDocument ==
    IF manifest = << >> THEN {OtherEvent}
    ELSE Endings
         \cup (IF stack = << >>
               THEN IF CountStarts(ElementNames) < MaxElems
                    THEN {StartElementOf("Key", a) : a \in KeyAttributes}
                    ELSE { }
               ELSE IF Top.name = "Key"
               THEN {EndElementOf("Key")}
                    \cup (IF CountStarts(ElementNames) < MaxElems
                          THEN {StartElementOf("Certificate", << >>),
                                StartElementOf("PrivateKey", << >>)}
                          ELSE { })
               ELSE {EndElementOf(Top.name)}
                    \cup (IF LastEvent.kind = "StartElement"
                          THEN {CharactersOf(t) : t \in FlatTexts}
                          ELSE { }))


\* well-formed documents of the keybox format of one or two Key elements,
\* which hold Certificate elements only, each with exactly one block of text
ChainDocument ==
    IF manifest = << >> THEN {OtherEvent}
    ELSE IF stack = << >>
    THEN {EndDocument}
         \cup (IF CountStarts({"Key"}) < 2
               THEN {StartElementOf("Key", a) : a \in KeyAttributes}
               ELSE { })
    ELSE IF Top.name = "Key"
    THEN {EndElementOf("Key")}
         \cup (IF CountStarts({"Certificate"}) < MaxChain
               THEN {StartElementOf("Certificate", << >>)}
               ELSE { })
    ELSE IF LastEvent.kind = "StartElement"
    THEN {CharactersOf(t) : t \in FlatTexts}
    ELSE {EndElementOf(Top.name)}

(***************************************************************************)
(* The scanner's arms, as functions of the event and the flags.            *)
(***************************************************************************)
has_ecdsa_algorithm(attributes) ==
    \E i \in 1..Len(attributes) :
        attributes[i].name = "algorithm" /\ attributes[i].value = "ecdsa"

start_is_ecdsa(name, attributes) ==
    IF name = "Key" /\ has_ecdsa_algorithm(attributes) THEN TRUE ELSE is_ecdsa

start_inside_certificate(name, attributes) ==
    IF name = "Certificate" /\ start_is_ecdsa(name, attributes)
    THEN TRUE ELSE inside_certificate

start_inside_private_key(name, attributes) ==
    IF name = "PrivateKey" /\ start_is_ecdsa(name, attributes)
    THEN TRUE ELSE inside_private_key

\* the flag kept at the close of a Key
end_is_ecdsa_kept(name) == is_ecdsa

end_is_ecdsa(name) == IF name = "Key" THEN FALSE ELSE is_ecdsa

end_inside_certificate(name) ==
    IF name = "Certificate" THEN FALSE ELSE inside_certificate

end_inside_private_key(name) ==
    IF name = "PrivateKey" THEN FALSE ELSE inside_private_key

\* the push gated by inside_certificate alone
characters_certs_ungated(text) ==
    IF inside_certificate
    THEN Append(certs, clean_pem_data(text))
    ELSE certs

\* the entry put in front of the list
characters_certs_front(text) ==
    IF inside_certificate /\ is_ecdsa
    THEN << clean_pem_data(text) >> \o certs
    ELSE certs

characters_certs(text) ==
    IF inside_certificate /\ is_ecdsa
    THEN Append(certs, clean_pem_data(text))
    ELSE certs

characters_private_key(text) ==
    IF inside_private_key /\ is_ecdsa
    THEN Some(clean_pem_data(text))
    ELSE private_key

(***************************************************************************)
(* main and read_ec_data_from_xml.                                         *)
(***************************************************************************)
run_vars == << run, before >>
emit_vars == << written, emitter_called, io_failed >>

\* the events the parser can yield next: the recorded ones when the
\* document has been read before, else what the environment allows
Upcoming(Document) ==
    IF pos < Len(manifest) THEN {manifest[pos + 1]} ELSE Document

\* the parser yields e; keep says whether the model records the document
Read(e, keep) ==
    /\ event' = e
    /\ pos' = pos + 1
    /\ manifest' = IF keep /\ pos >= Len(manifest)
                   THEN Append(manifest, e)
                   ELSE manifest

\* main going on to the manifest whatever KEYBOX_PATH is
main_path_any ==
    /\ pc = "main"
    /\ result' = result
    /\ pc' = "open"
    /\ UNCHANGED << calls, files, parser, scanner, run_vars, emit_vars >>

\* main, to the call of read_ec_data_from_xml
main_path ==
    /\ pc = "main"
    /\ \/ /\ keybox_path = "unset"
          /\ result' = "VarError"
          /\ pc' = "exit"
       \/ /\ keybox_path = "not_utf8"
          /\ result' = "InvalidPath"
          /\ pc' = "exit"
       \/ /\ keybox_path = "set"
          /\ result' = result
          /\ pc' = "open"
    /\ UNCHANGED << calls, files, parser, scanner, run_vars, emit_vars >>

\* a manifest that cannot be opened taken for an error
open_manifest_required ==
    /\ pc = "open"
    /\ IF manifest_present
       THEN pc' = "scan" /\ result' = result
       ELSE pc' = "exit" /\ result' = "IoError"
    /\ is_ecdsa' = FALSE
    /\ inside_certificate' = FALSE
    /\ inside_private_key' = FALSE
    /\ certs' = << >>
    /\ private_key' = None
    /\ UNCHANGED << calls, files, parser, run_vars, emit_vars >>

\* File::open and the scanner's locals
open_manifest ==
    /\ pc = "open"
    /\ IF manifest_present THEN pc' = "scan" ELSE pc' = "emit"
    /\ is_ecdsa' = FALSE
    /\ inside_certificate' = FALSE
    /\ inside_private_key' = FALSE
    /\ certs' = << >>
    /\ private_key' = None
    /\ UNCHANGED << calls, files, parser, result, run_vars, emit_vars >>

StartElement(Document, keep) ==
    /\ pc = "scan"
    /\ \E e \in Upcoming(Document) :
          /\ e.kind = "StartElement"
          /\ Read(e, keep)
          /\ stack' = Append(stack, e)
          /\ is_ecdsa' = start_is_ecdsa(e.name, e.attributes)
          /\ inside_certificate' = start_inside_certificate(e.name, e.attributes)
          /\ inside_private_key' = start_inside_private_key(e.name, e.attributes)
    /\ UNCHANGED << calls, files, pc, result, run_vars, emit_vars, certs, private_key >>

EndElement(Document, keep) ==
    /\ pc = "scan"
    /\ \E e \in Upcoming(Document) :
          /\ e.kind = "EndElement"
          /\ Read(e, keep)
          /\ stack' = SubSeq(stack, 1, Len(stack) - 1)
          /\ is_ecdsa' = end_is_ecdsa(e.name)
          /\ inside_certificate' = end_inside_certificate(e.name)
          /\ inside_private_key' = end_inside_private_key(e.name)
    /\ UNCHANGED << calls, files, pc, result, run_vars, emit_vars, certs, private_key >>

Characters(Document, keep) ==
    /\ pc = "scan"
    /\ \E e \in Upcoming(Document) :
          /\ e.kind = "Characters"
          /\ Read(e, keep)
          /\ certs' = characters_certs(e.text)
          /\ private_key' = characters_private_key(e.text)
    /\ UNCHANGED << calls, files, pc, result, run_vars, emit_vars, stack, is_ecdsa,
                    inside_certificate, inside_private_key >>

\* the arm _ => {}
Ignored(Document, keep) ==
    /\ pc = "scan"
    /\ \E e \in Upcoming(Document) :
          /\ e.kind = "Other"
          /\ Read(e, keep)
    /\ UNCHANGED << calls, files, pc, result, run_vars, emit_vars, stack, scanner >>

\* the Err taken for the end of the document
ParseErrorSkipped(Document, keep) ==
    /\ pc = "scan"
    /\ \E e \in Upcoming(Document) :
          /\ e.kind = "Error"
          /\ Read(e, keep)
    /\ pc' = "emit"
    /\ UNCHANGED << calls, files, result, run_vars, emit_vars, stack, scanner >>

\* event? on an Err: read_ec_data_from_xml returns it, and main returns it
ParseError(Document, keep) ==
    /\ pc = "scan"
    /\ \E e \in Upcoming(Document) :
          /\ e.kind = "Error"
          /\ Read(e, keep)
    /\ result' = "ParseError"
    /\ pc' = "exit"
    /\ UNCHANGED << calls, files, run_vars, emit_vars, stack, scanner >>

\* the iteration ends: Ok((certs, private_key))
EndOfEvents(Document, keep) ==
    /\ pc = "scan"
    /\ \E e \in Upcoming(Document) :
          /\ e.kind = "EndDocument"
          /\ Read(e, keep)
    /\ pc' = "emit"
    /\ UNCHANGED << calls, files, result, run_vars, emit_vars, stack, scanner >>

(***************************************************************************)
(* write_rust_constants, called by main with the scanner's result.         *)
(***************************************************************************)
\* how many bytes reach the file before a failing write
PartialLengths == {Len(GeneratedHeader)}

\* every write succeeds: the output replaces the start of the file
write_rust_constants ==
    /\ pc = "emit"
    /\ written' = Output(certs, private_key)
    /\ artifact' = File(WriteFromStart(artifact.content, Output(certs, private_key)))
    /\ emitter_called' = TRUE
    /\ result' = "Ok"
    /\ pc' = "exit"
    /\ UNCHANGED << calls, keybox_path, manifest_present, parser, scanner, run_vars, io_failed >>

\* open(file_path)? fails: nothing is created or written
write_open_error ==
    /\ pc = "emit"
    /\ emitter_called' = TRUE
    /\ io_failed' = TRUE
    /\ result' = "IoError"
    /\ pc' = "exit"
    /\ UNCHANGED << calls, files, parser, scanner, run_vars, written >>

\* a writeln!(..)? fails when the full buffer is passed on to the file: the
\* error is returned, and the bytes passed on before it stay in the file
write_error ==
    /\ pc = "emit"
    /\ \E n \in PartialLengths :
          artifact' = File(WriteFromStart(artifact.content,
                                          SubSeq(Output(certs, private_key), 1, n)))
    /\ written' = Output(certs, private_key)
    /\ emitter_called' = TRUE
    /\ io_failed' = TRUE
    /\ result' = "IoError"
    /\ pc' = "exit"
    /\ UNCHANGED << calls, keybox_path, manifest_present, parser, scanner, run_vars >>

\* the last bytes leave the buffer when output_file is dropped after Ok(()):
\* BufWriter's drop discards the error of a failing write
write_lost_on_drop ==
    /\ pc = "emit"
    /\ \E n \in PartialLengths :
          artifact' = File(WriteFromStart(artifact.content,
                                          SubSeq(Output(certs, private_key), 1, n)))
    /\ written' = Output(certs, private_key)
    /\ emitter_called' = TRUE
    /\ io_failed' = TRUE
    /\ result' = "Ok"
    /\ pc' = "exit"
    /\ UNCHANGED << calls, keybox_path, manifest_present, parser, scanner, run_vars >>

\* the build runs again, on the manifest as it is
rerun ==
    /\ pc = "exit"
    /\ run = 1
    /\ run' = run + 1
    /\ before' = artifact
    /\ pc' = "main"
    /\ result' = "none"
    /\ written' = ""
    /\ emitter_called' = FALSE
    /\ pos' = 0
    /\ stack' = << >>
    /\ event' = NoEvent
    /\ is_ecdsa' = FALSE
    /\ inside_certificate' = FALSE
    /\ inside_private_key' = FALSE
    /\ certs' = << >>
    /\ private_key' = None
    /\ UNCHANGED << calls, files, manifest, io_failed >>

(***************************************************************************)
(* The specifications.                                                     *)
(***************************************************************************)
InitRun ==
    /\ result = "none"
    /\ run = 1
    /\ before = artifact
    /\ written = ""
    /\ emitter_called = FALSE
    /\ io_failed = FALSE
    /\ manifest = << >>
    /\ pos = 0
    /\ stack = << >>
    /\ event = NoEvent
    /\ is_ecdsa = FALSE
    /\ inside_certificate = FALSE
    /\ inside_private_key = FALSE

\* no call of clean_pem_data or write_bytes on its own
NoCalls ==
    /\ pem = ""
    /\ cleaned = << >>
    /\ bytes = << >>
    /\ emitted = [done |-> FALSE, text |-> ""]

Init ==
    /\ keybox_path \in {"set", "unset", "not_utf8"}
    /\ artifact \in PriorArtifacts
    /\ manifest_present \in BOOLEAN
    /\ pc = "main"
    /\ certs = << >>
    /\ private_key = None
    /\ InitRun
    /\ NoCalls

Emit ==
    \/ write_rust_constants
    \/ write_open_error
    \/ write_error
    \/ write_lost_on_drop

\* one build of any properly nested document
Next ==
    \/ main_path
    \/ open_manifest
    \/ StartElement(AnyDocument, FALSE)
    \/ EndElement(AnyDocument, FALSE)
    \/ Characters(AnyDocument, FALSE)
    \/ Ignored(AnyDocument, FALSE)
    \/ ParseError(AnyDocument, FALSE)
    \/ EndOfEvents(AnyDocument, FALSE)
    \/ Emit

Spec == Init /\ [][Next]_vars

\* builds of a document of the keybox format, run again on the same document
NextFlat ==
    \/ main_path
    \/ open_manifest
    \/ StartElement(FlatDocument, TRUE)
    \/ EndElement(FlatDocument, TRUE)
    \/ Characters(FlatDocument, TRUE)
    \/ Ignored(FlatDocument, TRUE)
    \/ ParseError(FlatDocument, TRUE)
    \/ EndOfEvents(FlatDocument, TRUE)
    \/ Emit
    \/ rerun

SpecFlat == Init /\ [][NextFlat]_vars

\* one build of a document of certificate chains
NextChain ==
    \/ main_path
    \/ open_manifest
    \/ StartElement(ChainDocument, TRUE)
    \/ EndElement(ChainDocument, TRUE)
    \/ Characters(ChainDocument, TRUE)
    \/ Ignored(ChainDocument, TRUE)
    \/ EndOfEvents(ChainDocument, TRUE)
    \/ Emit

SpecChain == Init /\ [][NextChain]_vars

\* sequences of at most n elements of S
RECURSIVE SeqsUpTo(_, _)
SeqsUpTo(S, n) ==
    IF n = 0 THEN {<< >>}
    ELSE LET shorter == SeqsUpTo(S, n - 1)
         IN  shorter \cup {Append(q, x) : q \in {r \in shorter : Len(r) = n - 1}, x \in S}

\* write_rust_constants on any scanner result
InitEmit ==
    /\ keybox_path = "set"
    /\ artifact \in PriorArtifacts
    /\ manifest_present = TRUE
    /\ pc = "emit"
    /\ certs \in SeqsUpTo(CleanTexts, MaxCerts)
    /\ private_key \in {None} \cup {Some(t) : t \in CleanTexts}
    /\ InitRun
    /\ NoCalls

SpecEmit == InitEmit /\ [][Emit]_vars

(***************************************************************************)
(* clean_pem_data called on its own, then on its own result.               *)
(***************************************************************************)
\* pieces of one text of the model
MaxPieces == 3

Pieces == {"-----", "BEGIN", "END", "A", "\n", "\r", "\r\n"}

PemTexts == {join(q) : q \in SeqsUpTo(Pieces, MaxPieces)}

\* main has returned, or has not been started
Halted ==
    /\ keybox_path = "set"
    /\ artifact = NoArtifact
    /\ manifest_present = FALSE
    /\ pc = "exit"
    /\ certs = << >>
    /\ private_key = None
    /\ InitRun

program == << files, parser, scanner, run_vars, emit_vars, pc, result >>

clean_call ==
    /\ Len(cleaned) < 2
    /\ cleaned' = Append(cleaned,
                         clean_pem_data(IF cleaned = << >>
                                        THEN pem
                                        ELSE cleaned[Len(cleaned)]))
    /\ UNCHANGED << program, pem, bytes, emitted >>

InitClean ==
    /\ Halted
    /\ pem \in PemTexts
    /\ cleaned = << >>
    /\ bytes = << >>
    /\ emitted = [done |-> FALSE, text |-> ""]

SpecClean == InitClean /\ [][clean_call]_vars

(***************************************************************************)
(* write_bytes called on its own.                                          *)
(***************************************************************************)
\* bytes of one call: two full rows and a byte
MaxBytes == 21

\* the n bytes first, first + step, ... (u8)
ByteRun(n, first, step) == [i \in 1..n |-> (first + (i - 1) * step) % 256]

ByteRuns ==
    {ByteRun(n, first, step) : n \in 0..MaxBytes, first \in {0, 9, 250},
                               step \in {1, 16}}

write_bytes_call ==
    /\ ~emitted.done
    /\ emitted' = [done |-> TRUE, text |-> write_bytes(bytes)]
    /\ UNCHANGED << program, pem, cleaned, bytes >>

InitBytes ==
    /\ Halted
    /\ pem = ""
    /\ cleaned = << >>
    /\ bytes \in ByteRuns
    /\ emitted = [done |-> FALSE, text |-> ""]

SpecBytes == InitBytes /\ [][write_bytes_call]_vars

(***************************************************************************)
(* What the claims speak of.                                               *)
(***************************************************************************)
\* the declaration of an empty array, and of an array of bytes
EmptyArray(name) == "pub const " \o name \o ": &[u8] = &[];\n\n"
ByteArray(name, data) ==
    "pub const " \o name \o ": &[u8] = &[\n" \o write_bytes(data) \o "];\n\n"

CertificateName(i) ==
    IF i = 1 THEN "EC_CERTIFICATE_1"
    ELSE IF i = 2 THEN "EC_CERTIFICATE_2" ELSE "EC_CERTIFICATE_3"

Decodes(text) == decode(trim(text)).ok

\* the declaration the design gives a name for an entry: its bytes if the
\* entry is there and decodes, else the empty array
DeclarationOf(name, entry) ==
    IF entry.some /\ Decodes(entry.value)
    THEN ByteArray(name, decode(trim(entry.value)).bytes)
    ELSE EmptyArray(name)

EntryAt(list, i) == IF i <= Len(list) THEN Some(list[i]) ELSE None

\* the header and the three certificate declarations for a list of entries
CertificateDeclarations(list) ==
    "// Auto-generated constants\n\n"
    \o DeclarationOf("EC_CERTIFICATE_1", EntryAt(list, 1))
    \o DeclarationOf("EC_CERTIFICATE_2", EntryAt(list, 2))
    \o DeclarationOf("EC_CERTIFICATE_3", EntryAt(list, 3))

\* the header and the four declarations for a list of entries and a key
FourDeclarations(list, key) ==
    CertificateDeclarations(list) \o DeclarationOf("EC_PRIVATE_KEY", key)

\* the file begins with the text
Begins(file, text) ==
    /\ file.exists
    /\ Len(file.content) >= Len(text)
    /\ SubSeq(file.content, 1, Len(text)) = text

\* main has returned Ok and no write to the artifact has failed
BuiltOk == pc = "exit" /\ result = "Ok" /\ ~io_failed

(***************************************************************************)
(* C1.  A run of write_rust_constants that returns Ok has written the      *)
(* header and then exactly the four declarations EC_CERTIFICATE_1,         *)
(* EC_CERTIFICATE_2, EC_CERTIFICATE_3, EC_PRIVATE_KEY, each once, an entry *)
(* that is not there or does not decode (the private key too) as an empty  *)
(* array.  The code writes no EC_PRIVATE_KEY for a key that does not       *)
(* decode.                                                                 *)
(***************************************************************************)
C1_WritesFourDeclarations ==
    (pc = "exit" /\ result = "Ok") =>
        written = FourDeclarations(certs, private_key)

(***************************************************************************)
(* C2.  After a run the artifact's content is exactly what the run wrote:  *)
(* no byte of an earlier, longer artifact survives.  The code opens the    *)
(* artifact without truncating it.                                         *)
(***************************************************************************)
C2_ArtifactIsWhatTheRunWrote ==
    BuiltOk => artifact = File(written)

(***************************************************************************)
(* C3.  Text inside a Certificate or PrivateKey element whose enclosing    *)
(* Key element does not carry algorithm="ecdsa" is never pushed to the     *)
(* certificate list and never stored as the private key.                   *)
(***************************************************************************)
IsEcKey(element) ==
    /\ element.name = "Key"
    /\ \E i \in 1..Len(element.attributes) :
          element.attributes[i] = Attr("algorithm", "ecdsa")

IsEntry(element) == element.name \in {"Certificate", "PrivateKey"}

\* the innermost open Certificate or PrivateKey element, 0 if none
InnermostEntry ==
    IF \E i \in 1..Len(stack) : IsEntry(stack[i])
    THEN CHOOSE i \in 1..Len(stack) :
            /\ IsEntry(stack[i])
            /\ \A j \in (i + 1)..Len(stack) : ~IsEntry(stack[j])
    ELSE 0

\* the Key elements that enclose the innermost open entry, outermost first
EnclosingKeys ==
    SelectSeq(SubSeq(stack, 1, InnermostEntry - 1), LAMBDA el : el.name = "Key")

\* the parser is inside an entry which no Key carrying ecdsa encloses
InEntryOutsideEcKeys ==
    /\ pc = "scan"
    /\ InnermostEntry > 0
    /\ \A i \in 1..Len(EnclosingKeys) : ~IsEcKey(EnclosingKeys[i])

\* the parser is inside an entry whose nearest enclosing Key does not carry
\* ecdsa
InEntryOfOtherKey ==
    /\ pc = "scan"
    /\ InnermostEntry > 0
    /\ EnclosingKeys # << >>
    /\ ~IsEcKey(EnclosingKeys[Len(EnclosingKeys)])

NothingCaptured == certs' = certs /\ private_key' = private_key

\* as claimed, the enclosing Key being the nearest one: refuted by a Key
\* without ecdsa nested in a Key with it
C3_NearestKeyGates == [][InEntryOfOtherKey => NothingCaptured]_vars

\* amended: no enclosing Key carries ecdsa
C3_NoEcKeyNoCapture ==
    /\ [][InEntryOutsideEcKeys => NothingCaptured]_vars
    /\ [][(pc = "scan" /\ \A i \in 1..Len(stack) : ~IsEcKey(stack[i]))
            => NothingCaptured]_vars

\* a text has been read inside an entry of a Key with another algorithm,
\* and nothing of it was captured
C3_Witness ==
    /\ InEntryOutsideEcKeys
    /\ EnclosingKeys # << >>
    /\ EnclosingKeys[1].attributes = << Attr("algorithm", "rsa") >>
    /\ event.kind = "Characters"
    /\ certs = << >>
    /\ private_key = None

(***************************************************************************)
(* C4.  The scanner yields the certificates in document order; for a       *)
(* manifest of n Certificate elements of Key elements carrying ecdsa, each *)
(* with one block of text, slot i (1..3) of the artifact is the i-th of    *)
(* them, and the 4th and later ones change no declaration.                 *)
(***************************************************************************)
\* the Key element that holds position i of a document of the keybox format
KeyAround(i) ==
    manifest[CHOOSE j \in 1..(i - 1) :
                /\ IsKeyStart(manifest[j])
                /\ \A k \in (j + 1)..(i - 1) : ~IsKeyStart(manifest[k])]

\* the places of the elements named name in Key elements carrying ecdsa
EcEntryStarts(name) ==
    {i \in 1..Len(manifest) :
        /\ manifest[i].kind = "StartElement"
        /\ manifest[i].name = name
        /\ IsEcKey(KeyAround(i))}

\* the elements of a set of numbers, in increasing order
RECURSIVE Ascending(_)
Ascending(S) ==
    IF S = { } THEN << >>
    ELSE LET least == CHOOSE x \in S : \A y \in S : x <= y
         IN  << least >> \o Ascending(S \ {least})

\* the texts of those Certificate elements, in document order
EcCertificateTexts ==
    LET starts == Ascending(EcEntryStarts("Certificate"))
    IN  [n \in 1..Len(starts) |-> manifest[starts[n] + 1].text]

FirstThree(list) == SubSeq(list, 1, IF Len(list) < 3 THEN Len(list) ELSE 3)

C4_SlotsInDocumentOrder ==
    /\ event.kind = "EndDocument" => certs = EcCertificateTexts
    /\ (BuiltOk /\ manifest_present) =>
          /\ written = FourDeclarations(FirstThree(EcCertificateTexts), None)
          /\ Begins(artifact, written)

\* five certificates of Key elements carrying ecdsa, the second unlike the
\* first and the fourth unlike the third
C4_Witness ==
    /\ BuiltOk
    /\ Len(EcCertificateTexts) = 5
    /\ EcCertificateTexts[1] # EcCertificateTexts[2]
    /\ EcCertificateTexts[4] # EcCertificateTexts[3]

(***************************************************************************)
(* C5.  If the manifest cannot be opened, read_ec_data_from_xml returns    *)
(* Ok with no certificate and no private key, main returns Ok, and the     *)
(* artifact defines the four constants as empty arrays.                    *)
(***************************************************************************)
AllEmpty ==
    "// Auto-generated constants\n\n"
    \o "pub const EC_CERTIFICATE_1: &[u8] = &[];\n\n"
    \o "pub const EC_CERTIFICATE_2: &[u8] = &[];\n\n"
    \o "pub const EC_CERTIFICATE_3: &[u8] = &[];\n\n"
    \o "pub const EC_PRIVATE_KEY: &[u8] = &[];\n\n"

C6_FailSoftPerSlot ==
    (pc = "exit" /\ ~io_failed) =>
        /\ result = "Ok"
        /\ Begins(File(written), CertificateDeclarations(certs))
        /\ Begins(artifact, CertificateDeclarations(certs))

\* the second of three entries does not decode, the other two do
C6_Witness ==
    /\ BuiltOk
    /\ Len(certs) >= 3
    /\ Decodes(certs[1])
    /\ ~Decodes(certs[2])
    /\ Decodes(certs[3])
    /\ certs[1] # certs[3]

(***************************************************************************)
(* C7.  If the event stream reports a parse error, at any position,        *)
(* read_ec_data_from_xml returns it and main returns it without calling    *)
(* write_rust_constants: the artifact is as it was before the run.         *)
(***************************************************************************)
C7_ParseErrorAborts ==
    event.kind = "Error" =>
        /\ pc = "exit"
        /\ result = "ParseError"
        /\ ~emitter_called
        /\ written = ""
        /\ artifact = before

\* the error came after an entry was captured, with an artifact in place
C7_Witness ==
    /\ result = "ParseError"
    /\ certs # << >>
    /\ private_key # None
    /\ artifact.exists

(***************************************************************************)
(* C8.  Running the build twice in a row on an unchanged manifest, from    *)
(* any earlier artifact, leaves the artifact after the second run as it    *)
(* was after the first.                                                    *)
(***************************************************************************)
C8_SecondRunChangesNothing ==
    (run = 2 /\ pc = "exit" /\ ~io_failed) => artifact = before

\* the second run has written a certificate and a key over an artifact that
\* holds more than the run wrote
C8_Witness ==
    /\ run = 2
    /\ BuiltOk
    /\ certs # << >>
    /\ private_key # None
    /\ artifact # File(written)

(***************************************************************************)
(* C9.  With several PrivateKey elements in Key elements carrying ecdsa,   *)
(* the private key yielded is the content of the last of them in document  *)
(* order, also when that last element has no text.  The code stores the    *)
(* key when text arrives, not when the element opens: an element without   *)
(* text leaves the earlier key in place.                                   *)
(***************************************************************************)
LastEcPrivateKey ==
    CHOOSE i \in EcEntryStarts("PrivateKey") :
        \A j \in EcEntryStarts("PrivateKey") : j <= i

C9_LastPrivateKeyWins ==
    event.kind = "EndDocument" =>
        IF EcEntryStarts("PrivateKey") = { }
        THEN private_key = None
        ELSE IF manifest[LastEcPrivateKey + 1].kind = "Characters"
        THEN private_key = Some(clean_pem_data(manifest[LastEcPrivateKey + 1].text))
        ELSE private_key \in {None, Some("")}

(***************************************************************************)
(* C10.  For a manifest of one Key carrying ecdsa with one Certificate of  *)
(* text c and one PrivateKey of text k, both valid base64, the artifact    *)
(* declares EC_CERTIFICATE_1 as the bytes of c, EC_CERTIFICATE_2 and       *)
(* EC_CERTIFICATE_3 as empty arrays and EC_PRIVATE_KEY as the bytes of k:  *)
(* 00 01 02 for AAEC, 03 04 05 for AwQF.                                   *)
(***************************************************************************)
EcKey == StartElementOf("Key", << Attr("algorithm", "ecdsa") >>)

Element(name, text) ==
    << StartElementOf(name, << >>), CharactersOf(text), EndElementOf(name) >>

ScenarioA(c, k) ==
    { << OtherEvent, EcKey >> \o Element("Certificate", c)
          \o Element("PrivateKey", k) \o << EndElementOf("Key"), EndDocument >>,
      << OtherEvent, EcKey >> \o Element("PrivateKey", k)
          \o Element("Certificate", c) \o << EndElementOf("Key"), EndDocument >> }

\* the row of the bytes of a text, as the claim gives them
RowOf(text) ==
    IF text = "AAEC" THEN "    0x00, 0x01, 0x02, \n"
    ELSE "    0x03, 0x04, 0x05, \n"

ScenarioAText(c, k) ==
    "// Auto-generated constants\n\n"
    \o "pub const EC_CERTIFICATE_1: &[u8] = &[\n" \o RowOf(c) \o "];\n\n"
    \o "pub const EC_CERTIFICATE_2: &[u8] = &[];\n\n"
    \o "pub const EC_CERTIFICATE_3: &[u8] = &[];\n\n"
    \o "pub const EC_PRIVATE_KEY: &[u8] = &[\n" \o RowOf(k) \o "];\n\n"

C11_NoPathNoIo ==
    keybox_path # "set" =>
        /\ pc \in {"main", "exit"}
        /\ pc = "exit" =>
              result = (IF keybox_path = "unset" THEN "VarError" ELSE "InvalidPath")
        /\ pos = 0
        /\ event = NoEvent
        /\ ~emitter_called
        /\ written = ""
        /\ artifact = before

C11_Witness ==
    /\ pc = "exit"
    /\ keybox_path = "not_utf8"
    /\ result = "InvalidPath"
    /\ manifest_present
    /\ artifact.exists

(***************************************************************************)
(* C12: each Certificate element of a Key carrying ecdsa contributes       *)
(* exactly one entry of the certificate list, whether its text arrives as  *)
(* zero, one or several text events: when the document has been read, the  *)
(* list has as many entries as the document has such elements.  The code   *)
(* pushes one entry per text event, so an element without text contributes *)
(* none.                                                                   *)
(***************************************************************************)
C12_OneEntryPerCertificate ==
    event.kind = "EndDocument" =>
        Len(certs) = Cardinality(EcEntryStarts("Certificate"))

(***************************************************************************)
(* C13: every write or I/O failure while the artifact is produced, the     *)
(* failure of the final flush of the buffered output included, makes       *)
(* write_rust_constants return an error: it never returns Ok while part of *)
(* the content did not reach the file.  The code returns Ok(()) without    *)
(* flushing, and the drop of the BufWriter discards the error of the       *)
(* flush.                                                                  *)
(***************************************************************************)
C13_IoFailureIsAnError ==
    /\ (pc = "exit" /\ io_failed) => result = "IoError"
    /\ (pc = "exit" /\ result = "Ok") => Begins(artifact, written)

(***************************************************************************)
(* C14: over a stream of properly nested elements the scanner's flags are  *)
(* always in one of the four named states: inside_certificate and          *)
(* inside_private_key are never both true, and each of them implies        *)
(* is_ecdsa; so the text event just handled (the flags are as they were    *)
(* when it arrived) was not captured both as a certificate entry and as    *)
(* the private key.  The code keeps three independent flags, which a       *)
(* PrivateKey inside a Certificate, or a Key closed inside a Certificate,   *)
(* takes out of the four states.                                           *)
(***************************************************************************)
C14_FourScannerStates ==
    /\ ~(inside_certificate /\ inside_private_key)
    /\ inside_certificate => is_ecdsa
    /\ inside_private_key => is_ecdsa
    /\ event.kind = "Characters" =>
          ~(inside_certificate /\ inside_private_key /\ is_ecdsa)

(***************************************************************************)
(* C15: the close of any element named Key leaves is_ecdsa false, whatever *)
(* the flags were; from then on is_ecdsa stays false until a Key carrying  *)
(* algorithm="ecdsa" opens, and while it is false no text event changes    *)
(* the certificate list or the private key, also when inside_certificate   *)
(* or inside_private_key is still set.                                     *)
(***************************************************************************)
IsEcKeyOpen(e) ==
    /\ e.kind = "StartElement"
    /\ e.name = "Key"
    /\ has_ecdsa_algorithm(e.attributes)

C15_KeyCloseResets ==
    /\ [][(pc = "scan" /\ event'.kind = "EndElement" /\ event'.name = "Key")
            => ~is_ecdsa']_vars
    /\ [][(pc = "scan" /\ ~is_ecdsa /\ ~IsEcKeyOpen(event')) => ~is_ecdsa']_vars
    /\ [][(pc = "scan" /\ ~is_ecdsa /\ event'.kind = "Characters")
            => (certs' = certs /\ private_key' = private_key)]_vars

\* text arrives after a Key closed inside a Certificate that captured before
C15_Witness ==
    /\ pc = "scan"
    /\ event.kind = "Characters"
    /\ ~is_ecdsa
    /\ inside_certificate
    /\ Len(stack) = 2
    /\ Len(certs) = 1

(***************************************************************************)
(* C16: for a text none of whose lines starts with -----BEGIN or -----END, *)
(* clean_pem_data returns the concatenation of its lines in order, and     *)
(* clean_pem_data of that result is the result.  The second part fails     *)
(* where the lines join to a text that starts with a delimiter: the lines  *)
(* "-----" and "BEGIN" join to "-----BEGIN", which the second call drops.  *)
(***************************************************************************)
\* a line starts at position i of text
LineStartsAt(text, i) == i = 1 \/ CharAt(text, i - 1) = "\n"

StartsAt(text, i, prefix) ==
    /\ i + Len(prefix) - 1 <= Len(text)
    /\ SubSeq(text, i, i + Len(prefix) - 1) = prefix

NoDelimiterLine(text) ==
    \A i \in 1..Len(text) :
        LineStartsAt(text, i) =>
            ~(StartsAt(text, i, "-----BEGIN") \/ StartsAt(text, i, "-----END"))

\* the lines of text, one after the other: text without its line endings,
\* "\n" and "\r\n"
RECURSIVE ConcatLines(_)
ConcatLines(text) ==
    IF text = "" THEN ""
    ELSE IF CharAt(text, 1) = "\n" \/ StartsAt(text, 1, "\r\n")
    THEN ConcatLines(SubSeq(text, 2, Len(text)))
    ELSE CharAt(text, 1) \o ConcatLines(SubSeq(text, 2, Len(text)))

C16_CleanIsIdempotent ==
    NoDelimiterLine(pem) =>
        /\ Len(cleaned) >= 1 => cleaned[1] = ConcatLines(pem)
        /\ Len(cleaned) = 2 => cleaned[2] = cleaned[1]

\* C16 as amended: the second call returns the result of the first where
\* that result does not itself start with -----BEGIN or -----END
C16_CleanIsIdempotentOffDelimiters ==
    NoDelimiterLine(pem) =>
        /\ Len(cleaned) >= 1 => cleaned[1] = ConcatLines(pem)
        /\ (Len(cleaned) = 2 /\ NoDelimiterLine(cleaned[1]))
              => cleaned[2] = cleaned[1]

C16_Witness ==
    /\ pem = "-----\r\nA"
    /\ cleaned = << "-----A", "-----A" >>

(***************************************************************************)
(* C17: write_bytes emits each of the n bytes exactly once, in order, as a *)
(* two-hex-digit value, in rows of exactly ten values except a shorter     *)
(* last row: byte i (from 0) is value i % 10 of row i \div 10, there are   *)
(* ceil(n / 10) rows of values, and the text holds nothing but the rows    *)
(* and their line ends (one line end alone for n = 0).                     *)
(***************************************************************************)
ValueRows == SelectSeq(lines(emitted.text), LAMBDA row : row # "")

HexValueOf(c) == (CHOOSE d \in 1..16 : CharAt("0123456789abcdef", d) = c) - 1

IsHex(c) == \E d \in 1..16 : CharAt("0123456789abcdef", d) = c

\* value is "0xhh, " with hh the two hex digits of byte
IsValueOf(value, byte) ==
    /\ Len(value) = 6
    /\ SubSeq(value, 1, 2) = "0x"
    /\ SubSeq(value, 5, 6) = ", "
    /\ IsHex(CharAt(value, 3))
    /\ IsHex(CharAt(value, 4))
    /\ 16 * HexValueOf(CharAt(value, 3)) + HexValueOf(CharAt(value, 4)) = byte

\* the value of index j (from 0) of a row
ValueAt(row, j) == SubSeq(row, 4 + 6 * j + 1, 4 + 6 * j + 6)

C17_RowsOfTen ==
    emitted.done =>
        LET n == Len(bytes)
        IN  /\ Len(ValueRows) = (n + 9) \div 10
            /\ \A i \in 0..(n - 1) :
                  /\ i \div 10 < Len(ValueRows)
                  /\ IsValueOf(ValueAt(ValueRows[(i \div 10) + 1], i % 10),
                               bytes[i + 1])
            /\ \A r \in 1..Len(ValueRows) :
                  /\ SubSeq(ValueRows[r], 1, 4) = "    "
                  /\ Len(ValueRows[r]) =
                        4 + 6 * (IF r < Len(ValueRows) THEN 10 ELSE n - 10 * (r - 1))
            /\ Len(emitted.text) = (IF n = 0 THEN 1 ELSE 6 * n + 5 * Len(ValueRows))

\* two full rows and a third of one value, a1 after 0a and 00
C17_Witness ==
    /\ emitted.done
    /\ Len(bytes) = 21
    /\ bytes[1] = 0
    /\ bytes[11] = 160
    /\ Len(ValueRows) = 3
    /\ ValueRows[3] = "    0x40, "

====
